---- MODULE Spec2Model ----
(***************************************************************************)
(* Model of model/encoder.py: the watermark Encoder.                       *)
(*                                                                         *)
(* An Encoder is constructed once from a configuration (Encoder.__init__)  *)
(* and then used for any number of forward calls (Encoder.forward).        *)
(* Tensors are modelled by their shape and device; the message tensor also *)
(* carries its strides and storage, as torch views do, so that unsqueeze   *)
(* and expand are computed and not assumed.                                *)
(***************************************************************************)
EXTENDS Integers, Sequences, FiniteSets, TLC

VARIABLES
    config,   \* the HiDDenConfiguration given to Encoder(config)
    pc,       \* "start" before __init__, then "ready" (returned) or "failed" (raised)
    self,     \* the attributes assigned on the encoder so far
    error,    \* the exception __init__ raised, or "none"
    device,   \* the device holding the encoder's parameters
    last      \* what the last forward call computed, up to its return or raise

vars == <<config, pc, self, error, device, last>>

(***************************************************************************)
(* Bounds of the model.                                                    *)
(***************************************************************************)
MaxBatch == 2
MaxBlocks == 3
MaxSide == 3

(***************************************************************************)
(* Program constants.                                                      *)
(***************************************************************************)
SemanticSide == 128
DinoHidden == 384
DinoHeads == 6
DinoImageSize == 224
DinoPatch == 8
AttentionSide == 28
AttentionFusionWidth == 39
ImageChannels == 3

(***************************************************************************)
(* Python values.                                                          *)
(***************************************************************************)
PyNone == <<"NoneType", "">>
Str(s) == <<"str", s>>

\* getattr(obj, name, default)
Getattr(obj, name, default) ==
    IF name \in DOMAIN obj THEN obj[name] ELSE default

\* range(n) as the set of its iterations, numbered from 1
Range(n) == 1..n

Devices == {"cpu", "cuda"}

(***************************************************************************)
(* Configurations (HiDDenConfiguration).  encoder_mode may be absent.      *)
(***************************************************************************)
Modes == {PyNone, Str("foo"), Str("vit"), Str("dino-output"), Str("dino-attention")}
MessageLengths == {8, 30}
Channels == {1, 64}
Sides == {64, SemanticSide}
SmallSides == 1..MaxSide

BaseConfigs(sides, blocks) ==
    [H : sides, W : sides, encoder_channels : Channels, encoder_blocks : blocks,
     message_length : MessageLengths, encoder_loss : {"mse"}, decoder_blocks : {7}]

ConfigsOver(sides, blocks) ==
    BaseConfigs(sides, blocks)
    \cup { c @@ [encoder_mode |-> m] : c \in BaseConfigs(sides, blocks), m \in Modes }

(***************************************************************************)
(* Layers, as the constructor arguments that fix their shapes.             *)
(***************************************************************************)
ConvBNRelu(channels_in, channels_out) ==
    [kind |-> "ConvBNRelu", in_channels |-> channels_in, out_channels |-> channels_out]

Conv2d(channels_in, channels_out, kernel) ==
    [kind |-> "Conv2d", in_channels |-> channels_in, out_channels |-> channels_out,
     kernel_size |-> kernel]

Linear(features_in, features_out) ==
    [kind |-> "Linear", in_features |-> features_in, out_features |-> features_out]

ViT(image_size, classes, depth) ==
    [kind |-> "ViT", image_size |-> image_size, patch_size |-> 32,
     num_classes |-> classes, dim |-> 1024, depth |-> depth, heads |-> 16,
     mlp_dim |-> 2048]

ViTFeatureExtractor == [kind |-> "ViTFeatureExtractor", size |-> DinoImageSize]

ViTModel(attentions) ==
    [kind |-> "ViTModel", hidden_size |-> DinoHidden, num_attention_heads |-> DinoHeads,
     tokens |-> (DinoImageSize \div DinoPatch) * (DinoImageSize \div DinoPatch) + 1,
     output_attentions |-> attentions, training |-> FALSE]

(***************************************************************************)
(* Encoder.__init__                                                        *)
(***************************************************************************)
TrunkOffByOne(cfg) ==
    <<ConvBNRelu(3, cfg.encoder_channels)>>
    \o [i \in Range(cfg.encoder_blocks) |->
            ConvBNRelu(cfg.encoder_channels, cfg.encoder_channels)]

\* lines 26-28: the list of trunk stages
Trunk(cfg) ==
    <<ConvBNRelu(3, cfg.encoder_channels)>>
    \o [i \in Range(cfg.encoder_blocks - 1) |->
            ConvBNRelu(cfg.encoder_channels, cfg.encoder_channels)]

\* lines 15-22: the plain attributes
InitAttributes(cfg) ==
    [H |-> cfg.H, W |-> cfg.W, conv_channels |-> cfg.encoder_channels,
     num_blocks |-> cfg.encoder_blocks, encoder_loss |-> cfg.encoder_loss,
     encoder_mode |-> Getattr(cfg, "encoder_mode", PyNone)]

\* lines 26-31: trunk and final projection
InitTrunk(s, cfg) ==
    s @@ [conv_layers |-> Trunk(cfg),
          final_layer |-> Conv2d(s.conv_channels, 3, 1)]

\* lines 34-43
InitVit(s, cfg) ==
    s @@ [after_concat_layer |->
              ConvBNRelu(s.conv_channels + 3 + cfg.message_length, s.conv_channels),
          vit |-> ViT(<<cfg.H, cfg.W>>, SemanticSide * SemanticSide * s.conv_channels,
                      cfg.decoder_blocks \div 2)]

\* lines 46-50
InitDinoOutput(s, cfg) ==
    s @@ [after_concat_layer |->
              ConvBNRelu(s.conv_channels + 3 + cfg.message_length, s.conv_channels),
          feature_extractor |-> ViTFeatureExtractor,
          model |-> ViTModel(FALSE),
          linear |-> Linear(DinoHidden, SemanticSide * SemanticSide * s.conv_channels)]

InitDinoAttentionWithLinear(s, cfg) ==
    s @@ [after_concat_layer |-> ConvBNRelu(AttentionFusionWidth, s.conv_channels),
          feature_extractor |-> ViTFeatureExtractor,
          model |-> ViTModel(TRUE),
          linear |-> Linear(DinoHidden, SemanticSide * SemanticSide * s.conv_channels)]

\* lines 53-56
InitDinoAttention(s, cfg) ==
    s @@ [after_concat_layer |-> ConvBNRelu(AttentionFusionWidth, s.conv_channels),
          feature_extractor |-> ViTFeatureExtractor,
          model |-> ViTModel(TRUE)]

\* lines 33-59: the strategy branch
InitStrategy(s, cfg) ==
    IF s.encoder_mode = Str("vit")
    THEN [self |-> InitVit(s, cfg), error |-> "none"]
    ELSE IF s.encoder_mode = Str("dino-output")
    THEN [self |-> InitDinoOutput(s, cfg), error |-> "none"]
    ELSE IF s.encoder_mode = Str("dino-attention")
    THEN [self |-> InitDinoAttention(s, cfg), error |-> "none"]
    ELSE [self |-> s, error |-> "ValueError"]

EncoderInitNoElse(cfg) ==
    LET s == InitAttributes(cfg)
    IN  IF s.encoder_mode = PyNone
        THEN [self |-> s, error |-> "ValueError"]
        ELSE [self |-> InitStrategy(InitTrunk(s, cfg), cfg).self, error |-> "none"]

EncoderInitLateCheck(cfg) ==
    LET s == InitAttributes(cfg)
    IN  IF s.encoder_mode = PyNone
        THEN [self |-> InitTrunk(s, cfg), error |-> "ValueError"]
        ELSE InitStrategy(InitTrunk(s, cfg), cfg)

\* lines 13-59: the object at the end of __init__, or at the raise
EncoderInit(cfg) ==
    LET s == InitAttributes(cfg)
    IN  IF s.encoder_mode = PyNone
        THEN [self |-> s, error |-> "ValueError"]
        ELSE InitStrategy(InitTrunk(s, cfg), cfg)

(***************************************************************************)
(* Tensors.  A plain tensor is its shape and device.  A view also has the  *)
(* strides and the storage it reads, and At gives the element at an index. *)
(***************************************************************************)
NoTensor == [shape |-> <<>>, device |-> "none"]
NoView == [shape |-> <<>>, stride |-> <<>>, storage |-> <<>>, device |-> "none"]

Tensor(shape, dev) == [shape |-> shape, device |-> dev]

RECURSIVE Numel(_)
Numel(shape) ==
    IF shape = <<>> THEN 1 ELSE Head(shape) * Numel(Tail(shape))

RECURSIVE Dot(_, _)
Dot(a, b) ==
    IF a = <<>> THEN 0 ELSE Head(a) * Head(b) + Dot(Tail(a), Tail(b))

\* element of a view at a 1-based index
At(t, idx) ==
    t.storage[1 + Dot([k \in DOMAIN idx |-> idx[k] - 1], t.stride)]

\* tensor.reshape(*target)
Reshape(t, target) ==
    IF Numel(t.shape) = Numel(target)
    THEN [ok |-> TRUE, t |-> Tensor(target, t.device)]
    ELSE [ok |-> FALSE, t |-> NoTensor]

\* tensor.unsqueeze(-1)
Unsqueeze(t) ==
    [t EXCEPT !.shape = @ \o <<1>>, !.stride = @ \o <<1>>]

\* tensor.expand(*sizes): -1 keeps a dimension, a dimension of size 1 is
\* repeated with stride 0
Expand(t, sizes) ==
    [t EXCEPT
        !.shape = [k \in DOMAIN sizes |-> IF sizes[k] = -1 THEN t.shape[k] ELSE sizes[k]],
        !.stride = [k \in DOMAIN sizes |->
                       IF sizes[k] = -1 \/ t.shape[k] # 1 THEN t.stride[k] ELSE 0]]

\* whether expand(*sizes) is defined
Expandable(t, sizes) ==
    /\ Len(sizes) = Len(t.shape)
    /\ \A k \in DOMAIN sizes : sizes[k] = -1 \/ t.shape[k] = 1 \/ t.shape[k] = sizes[k]

\* torch.cat(tensors, dim=1)
CatOk(tensors) ==
    \A a \in DOMAIN tensors, b \in DOMAIN tensors :
        /\ tensors[a].device = tensors[b].device
        /\ Len(tensors[a].shape) = Len(tensors[b].shape)
        /\ \A k \in DOMAIN tensors[a].shape :
              k # 2 => tensors[a].shape[k] = tensors[b].shape[k]

RECURSIVE SumChannels(_)
SumChannels(tensors) ==
    IF tensors = <<>> THEN 0 ELSE Head(tensors).shape[2] + SumChannels(Tail(tensors))

Cat(tensors) ==
    Tensor([tensors[1].shape EXCEPT ![2] = SumChannels(tensors)], tensors[1].device)

\* a convolution applied to (B, C, H, W): the channels must be the layer's
ConvOk(layer, t) == t.shape[2] = layer.in_channels

ConvApply(layer, t) == Tensor([t.shape EXCEPT ![2] = layer.out_channels], t.device)

RECURSIVE SequentialOk(_, _)
SequentialOk(layers, t) ==
    IF layers = <<>> THEN TRUE
    ELSE ConvOk(Head(layers), t) /\ SequentialOk(Tail(layers), ConvApply(Head(layers), t))

(***************************************************************************)
(* Inputs of forward.                                                      *)
(***************************************************************************)
Image(B, cfg, dev) == Tensor(<<B, ImageChannels, cfg.H, cfg.W>>, dev)

\* a contiguous (B, message_length) tensor; element k of the storage holds k,
\* so that every element tells its position
Message(B, cfg, dev) ==
    [shape |-> <<B, cfg.message_length>>, stride |-> <<cfg.message_length, 1>>,
     storage |-> [k \in 1..(B * cfg.message_length) |-> k], device |-> dev]

(***************************************************************************)
(* The forward procedures.  A result records what the call computed up to  *)
(* its return or its raise.                                                *)
(***************************************************************************)
Result(proc, dev, image, message) ==
    [proc |-> proc, on |-> dev, image |-> image, message |-> message, error |-> "none",
     reached |-> {}, flat |-> NoTensor, inputs_device |-> "none",
     backbone_device |-> "none", semantic |-> NoTensor, expanded_message |-> NoView,
     concat |-> NoTensor, out |-> NoTensor]

NoCall == Result("none", "none", NoTensor, NoView)

Raise(r, e) == [r EXCEPT !.error = e]

SemanticShapeChannelsLast(s, image) ==
    <<image.shape[1], SemanticSide, SemanticSide, s.conv_channels>>

\* lines 63, 78: the shape the semantic representation is reshaped to
SemanticShape(s, image) ==
    <<image.shape[1], s.conv_channels, SemanticSide, SemanticSide>>

ExpandedSizesSwapped(s) == <<-1, -1, s.W, s.H>>

\* lines 64, 80, 94: the sizes the message is expanded to
ExpandedSizes(s) == <<-1, -1, s.H, s.W>>

\* lines 64-70, 80-84, 94-98: broadcast, (in forward_vit) run the trunk,
\* concatenate, fuse, project
Fuse(s, r, semantic, image, message, trunk) ==
    LET unsq == Unsqueeze(Unsqueeze(message))
        sizes == ExpandedSizes(s)
    IN  IF ~Expandable(unsq, sizes) THEN Raise(r, "ExpandError")
        ELSE
        LET expanded == Expand(unsq, sizes)
            r1 == [r EXCEPT !.expanded_message = expanded,
                            !.reached = @ \cup {"expand"}]
            parts == <<Tensor(expanded.shape, expanded.device), semantic, image>>
        IN  IF ~SequentialOk(trunk, image) THEN Raise(r1, "ChannelError")
            ELSE IF ~CatOk(parts) THEN Raise(r1, "CatError")
            ELSE
            LET concat == Cat(parts)
                r2 == [r1 EXCEPT !.concat = concat, !.reached = @ \cup {"cat"}]
            IN  IF ~ConvOk(s.after_concat_layer, concat) THEN Raise(r2, "ChannelError")
                ELSE [r2 EXCEPT
                        !.out = ConvApply(s.final_layer,
                                          ConvApply(s.after_concat_layer, concat)),
                        !.reached = @ \cup {"fusion", "final"}]

\* lines 61-70
forward_vit(s, dev, image, message) ==
    LET r == Result("forward_vit", dev, image, message)
    IN  IF image.device # dev THEN Raise(r, "DeviceError")
        ELSE
        LET flat == Tensor(<<image.shape[1], s.vit.num_classes>>, dev)
            r1 == [r EXCEPT !.flat = flat, !.reached = {"semantic"}]
            rs == Reshape(flat, SemanticShape(s, image))
        IN  IF ~rs.ok THEN Raise(r1, "ShapeError")
            ELSE Fuse(s, [r1 EXCEPT !.semantic = rs.t, !.reached = @ \cup {"reshape"}],
                      rs.t, image, message, s.conv_layers)

\* lines 73-74, 87-88: split on the cpu, preprocess, move to 'cuda'
Preprocess(s, image) ==
    LET image_list == [b \in 1..image.shape[1] |-> Tensor(Tail(image.shape), "cpu")]
    IN  Tensor(<<Len(image_list), ImageChannels, s.feature_extractor.size,
                 s.feature_extractor.size>>, "cuda")

\* lines 72-84
forward_dino_output(s, dev, image, message) ==
    LET r == Result("forward_dino_output", dev, image, message)
        inputs == Preprocess(s, image)
        r1 == [r EXCEPT !.inputs_device = inputs.device, !.backbone_device = dev,
                        !.reached = {"backbone"}]
    IN  IF inputs.device # dev THEN Raise(r1, "DeviceError")
        ELSE
        LET pooler_output == Tensor(<<inputs.shape[1], s.model.hidden_size>>, dev)
            flat == Tensor(<<pooler_output.shape[1], s.linear.out_features>>, dev)
            r2 == [r1 EXCEPT !.flat = flat, !.reached = @ \cup {"semantic"}]
            rs == Reshape(flat, SemanticShape(s, image))
        IN  IF pooler_output.shape[2] # s.linear.in_features THEN Raise(r1, "ShapeError")
            ELSE IF ~rs.ok THEN Raise(r2, "ShapeError")
            ELSE Fuse(s, [r2 EXCEPT !.semantic = rs.t, !.reached = @ \cup {"reshape"}],
                      rs.t, image, message, <<>>)

\* lines 86-98
forward_dino_attention(s, dev, image, message) ==
    LET r == Result("forward_dino_attention", dev, image, message)
        inputs == Preprocess(s, image)
        r1 == [r EXCEPT !.inputs_device = inputs.device, !.backbone_device = dev,
                        !.reached = {"backbone"}]
    IN  IF inputs.device # dev THEN Raise(r1, "DeviceError")
        ELSE
        LET last_attention == Tensor(<<inputs.shape[1], s.model.num_attention_heads,
                                       s.model.tokens, s.model.tokens>>, dev)
            row == Tensor(<<last_attention.shape[1], last_attention.shape[2],
                            last_attention.shape[4] - 1>>, dev)
            r2 == [r1 EXCEPT !.flat = row, !.reached = @ \cup {"semantic"}]
            rs == Reshape(row, <<row.shape[1], row.shape[2], AttentionSide, AttentionSide>>)
        IN  IF ~rs.ok THEN Raise(r2, "ShapeError")
            ELSE
            LET attention == Tensor(<<rs.t.shape[1], rs.t.shape[2],
                                      SemanticSide, SemanticSide>>, dev)
            IN  Fuse(s, [r2 EXCEPT !.semantic = attention, !.reached = @ \cup {"reshape"}],
                     attention, image, message, <<>>)

forwardSwapped(s, dev, image, message) ==
    IF s.encoder_mode = Str("vit") THEN forward_vit(s, dev, image, message)
    ELSE IF s.encoder_mode = Str("dino-output")
    THEN forward_dino_attention(s, dev, image, message)
    ELSE IF s.encoder_mode = Str("dino-attention")
    THEN forward_dino_output(s, dev, image, message)
    ELSE Raise(Result("forward", dev, image, message), "ValueError")

\* lines 100-108
forward(s, dev, image, message) ==
    IF s.encoder_mode = Str("vit") THEN forward_vit(s, dev, image, message)
    ELSE IF s.encoder_mode = Str("dino-output")
    THEN forward_dino_output(s, dev, image, message)
    ELSE IF s.encoder_mode = Str("dino-attention")
    THEN forward_dino_attention(s, dev, image, message)
    ELSE Raise(Result("forward", dev, image, message), "ValueError")

(***************************************************************************)
(* State machine.                                                          *)
(***************************************************************************)
NoSelf == [encoder_mode |-> PyNone]

InitOver(configs) ==
    /\ config \in configs
    /\ pc = "start"
    /\ self = NoSelf
    /\ error = "none"
    /\ device = "cpu"
    /\ last = NoCall

Init == InitOver(ConfigsOver(Sides, 0..MaxBlocks))

\* Encoder(config)
Construct ==
    /\ pc = "start"
    /\ LET r == EncoderInit(config)
       IN  /\ self' = r.self
           /\ error' = r.error
           /\ pc' = IF r.error = "none" THEN "ready" ELSE "failed"
    /\ UNCHANGED <<config, device, last>>

\* encoder.to(d), inherited from nn.Module
To ==
    /\ pc = "ready"
    /\ \E d \in Devices : device' = d
    /\ UNCHANGED <<config, pc, self, error, last>>

\* encoder(image, message) on a batch of B images held on device d
Forward ==
    /\ pc = "ready"
    /\ \E B \in 1..MaxBatch, d \in Devices :
          last' = forward(self, device, Image(B, config, d), Message(B, config, d))
    /\ UNCHANGED <<config, pc, self, error, device>>

Next == Construct \/ To \/ Forward

Spec == Init /\ [][Next]_vars

\* the same program on small images, for the element-wise check of the broadcast
InitBroadcast == InitOver(ConfigsOver(SmallSides, {1, 2}))

SpecBroadcast == InitBroadcast /\ [][Next]_vars

(***************************************************************************)
(* Properties.                                                             *)
(***************************************************************************)
Recognized == {Str("vit"), Str("dino-output"), Str("dino-attention")}

ConfiguredMode == Getattr(config, "encoder_mode", PyNone)

LayerAttrs ==
    {"conv_layers", "final_layer", "after_concat_layer", "vit", "feature_extractor",
     "model", "linear"}

StrategyAttrs == {"vit", "feature_extractor", "model", "linear"}

Built == DOMAIN self \cap LayerAttrs

\* C1: construction with encoder_mode absent, None or an unrecognized string
\* ends in a ValueError and yields no encoder; with each of the three
\* recognized values it raises no error and yields one.
C1_ConstructionValidates ==
    pc # "start" =>
        /\ ConfiguredMode \notin Recognized => pc = "failed" /\ error = "ValueError"
        /\ ConfiguredMode \in Recognized => pc = "ready" /\ error = "none"

C1_Witness ==
    /\ pc = "failed"
    /\ "encoder_mode" \in DOMAIN config
    /\ config.encoder_mode = Str("foo")
    /\ error = "ValueError"

\* C2 (as claimed): when construction raises the configuration error, no
\* layer of the encoder has been built.
C2_NoLayerAtRaise ==
    pc = "failed" => Built = {}

\* C2 (amended): when encoder_mode is absent or None the error is raised
\* before any layer is built; when it is an unrecognized string the error is
\* raised after the trunk and the final 1x1 projection are built and before
\* any strategy-specific layer is built.
C2_NoStrategyLayerAtRaise ==
    pc = "failed" =>
        IF ConfiguredMode = PyNone
        THEN Built = {}
        ELSE Built = {"conv_layers", "final_layer"}

C2_Witness ==
    /\ pc = "failed"
    /\ self.encoder_mode = Str("foo")
    /\ "conv_layers" \in DOMAIN self
    /\ "after_concat_layer" \notin DOMAIN self

\* C3: for every configuration with a recognized encoder_mode, forward on an
\* image of shape (B,3,H,W) and a message of shape (B,message_length), with
\* the image on the encoder's device (and that device 'cuda' for the two
\* pretrained strategies), completes and returns a tensor of shape (B,3,H,W).
C3_OutputShape ==
    (/\ last.proc # "none"
     /\ last.image.device = last.on
     /\ last.proc # "forward_vit" => last.on = "cuda")
    => /\ last.error = "none"
       /\ last.out.shape = last.image.shape

ProcOf(mode) ==
    IF mode = Str("vit") THEN "forward_vit"
    ELSE IF mode = Str("dino-output") THEN "forward_dino_output"
    ELSE IF mode = Str("dino-attention") THEN "forward_dino_attention"
    ELSE "none"

\* C4: on a constructed encoder every forward call runs the one forward
\* procedure matching the encoder_mode fixed at construction, never reaches
\* the dispatch error, and no step changes the stored encoder_mode.
C4_Dispatch ==
    /\ [](last.proc # "none" =>
            /\ last.proc = ProcOf(ConfiguredMode)
            /\ last.proc = ProcOf(self.encoder_mode)
            /\ last.error # "ValueError")
    /\ [][pc = "ready" => pc' = "ready" /\ self'.encoder_mode = self.encoder_mode]_vars

C4_Witness ==
    /\ pc = "ready"
    /\ last.proc = "forward_dino_output"
    /\ self.encoder_mode = Str("dino-output")

\* C5: in strategy dino-attention the input channel count the fusion block
\* is constructed with equals message_length + head_count + 3, the channel
\* count of the tensor concatenated at forward time.
C5_FusionWidth ==
    (pc = "ready" /\ self.encoder_mode = Str("dino-attention")) =>
        /\ self.after_concat_layer.in_channels
             = config.message_length + self.model.num_attention_heads + 3
        /\ "cat" \in last.reached =>
             last.concat.shape[2] = self.after_concat_layer.in_channels

\* C6: in every forward path the broadcast message has shape
\* (B, message_length, H, W) and its element (b, c, i, j) is message[b][c].
C6_Broadcast ==
    "expand" \in last.reached =>
        LET e == last.expanded_message
            m == last.message
            B == last.image.shape[1]
            L == config.message_length
        IN  /\ m.shape = <<B, L>>
            /\ e.shape = <<B, L, config.H, config.W>>
            /\ \A b \in 1..B, c \in 1..L, i \in 1..config.H, j \in 1..config.W :
                  At(e, <<b, c, i, j>>) = m.storage[(b - 1) * L + c]

C6_Witness ==
    /\ "expand" \in last.reached
    /\ last.image.shape[1] = MaxBatch
    /\ config.H = MaxSide
    /\ config.W = 1
    /\ last.proc = "forward_dino_attention"

\* C7: in strategy vit, if conv_channels x 128 x 128 differs from the
\* transformer's output width forward raises a shape error and returns no
\* output; if it equals it, the reshape to (B, conv_channels, 128, 128)
\* succeeds.
C7_VitReshape ==
    (last.proc = "forward_vit" /\ "semantic" \in last.reached) =>
        IF self.conv_channels * SemanticSide * SemanticSide = last.flat.shape[2]
        THEN /\ "reshape" \in last.reached
             /\ last.semantic.shape
                  = <<last.image.shape[1], self.conv_channels, SemanticSide, SemanticSide>>
        ELSE /\ last.error = "ShapeError"
             /\ last.out = NoTensor

C7_Witness ==
    /\ last.proc = "forward_vit"
    /\ "reshape" \in last.reached
    /\ last.flat.shape = <<last.image.shape[1], self.vit.num_classes>>
    /\ self.conv_channels > 1

\* C8: after a successful construction the strategy-specific components held
\* are exactly those of the strategy: vit holds the ViT only; dino-output the
\* backbone, the preprocessor and the linear projection; dino-attention the
\* backbone and the preprocessor.
C8_ExactComponents ==
    pc = "ready" =>
        /\ self.encoder_mode = Str("vit") =>
             DOMAIN self \cap StrategyAttrs = {"vit"}
        /\ self.encoder_mode = Str("dino-output") =>
             /\ DOMAIN self \cap StrategyAttrs = {"feature_extractor", "model", "linear"}
             /\ self.linear.in_features = DinoHidden
             /\ self.linear.out_features
                  = SemanticSide * SemanticSide * self.conv_channels
        /\ self.encoder_mode = Str("dino-attention") =>
             DOMAIN self \cap StrategyAttrs = {"feature_extractor", "model"}

C8_Witness ==
    /\ pc = "ready"
    /\ self.encoder_mode = Str("dino-attention")
    /\ "model" \in DOMAIN self

StagesWellFormed ==
    /\ self.conv_layers[1].in_channels = 3
    /\ \A k \in DOMAIN self.conv_layers :
          /\ self.conv_layers[k].out_channels = config.encoder_channels
          /\ k > 1 => self.conv_layers[k].in_channels = config.encoder_channels

\* C9 (as claimed): the trunk has exactly encoder_blocks stages, for every
\* encoder_blocks including 0 and 1.
C9_TrunkStages ==
    "conv_layers" \in DOMAIN self =>
        Len(self.conv_layers) = config.encoder_blocks

\* C9 (amended): for encoder_blocks >= 1 the trunk has exactly encoder_blocks
\* stages, the first 3 -> conv_channels and the others conv_channels ->
\* conv_channels; for encoder_blocks = 0 it has exactly one stage,
\* 3 -> conv_channels.
C9_TrunkStagesAtLeastOne ==
    "conv_layers" \in DOMAIN self =>
        /\ Len(self.conv_layers)
             = IF config.encoder_blocks >= 1 THEN config.encoder_blocks ELSE 1
        /\ StagesWellFormed

C9_Witness ==
    /\ pc = "ready"
    /\ config.encoder_blocks = MaxBlocks
    /\ Len(self.conv_layers) = MaxBlocks
    /\ MaxBlocks > 1

\* C10: in the two pretrained strategies the preprocessed batch is on the
\* backbone's device when the backbone runs, whatever device the encoder is
\* on, and the concatenated tensors and the output are on the image's device.
C10_Devices ==
    "backbone" \in last.reached =>
        /\ last.inputs_device = last.backbone_device
        /\ "cat" \in last.reached =>
             /\ last.semantic.device = last.image.device
             /\ last.expanded_message.device = last.image.device
        /\ last.out # NoTensor => last.out.device = last.image.device
====
